---- MODULE Spec2Model ----
(***************************************************************************)
(* Car-rental booking backend (zulala): the booking pricing, availability  *)
(* and cancellation rules of the Car and Booking models, the Offer         *)
(* discount and eligibility rules, and the request handlers that use them. *)
(*                                                                         *)
(* Time is counted in whole hours since the start of a Monday, 00:00.      *)
(* Money inside the booking store is kept in fixed point, Unit parts to    *)
(* one currency unit, so that the percentages the handlers take (18% tax,  *)
(* 10/25/50% cancellation fee, percentage offers) are exact.               *)
(* The value Null stands for a field that is undefined or null.            *)
(***************************************************************************)
EXTENDS Integers, Sequences, FiniteSets, TLC

VARIABLES now, bookings, offers, cars, users, res, args, result

vars == <<now, bookings, offers, cars, users, res, args, result>>

Null == -1

\* The user collection as registration and verification leave it: no failed
\* logins and no lock (lockUntil unset); userSchema declares no
\* totalBookings field, so it reads as undefined.
Accounts ==
    [u \in {"u1", "u2"} |->
        [id |-> u, password |-> IF u = "u1" THEN "pw1" ELSE "pw2",
         loginAttempts |-> 0, lockUntil |-> Null,
         isVerified |-> TRUE, status |-> "active", totalBookings |-> Null]]

\* JavaScript truthiness of a numeric field: undefined, null and 0 are falsy.
Truthy(x) == x # Null /\ x # 0

Min2(a, b) == IF a <= b THEN a ELSE b

RECURSIVE SumSeq(_)
SumSeq(s) == IF s = <<>> THEN 0 ELSE Head(s) + SumSeq(Tail(s))

\* Math.ceil(n / d) for n >= 0, d > 0
CeilDiv(n, d) == (n + d - 1) \div d

----------------------------------------------------------------------------
(* Car.calculateRentalPrice                                                *)

\* sum of service.price over extras.additionalServices (forEach)
RECURSIVE ServicePriceSum(_)
ServicePriceSum(s) ==
    IF s = <<>> THEN 0 ELSE Head(s).price + ServicePriceSum(Tail(s))

\* The weekly branch applied to every rental of 7 days or more.
calculateRentalPriceNoMonthly(car, days, extras) ==
    LET base ==
            IF days >= 7 /\ Truthy(car.pricePerWeek)
            THEN ((days \div 7) * car.pricePerWeek) + ((days % 7) * car.pricePerDay)
            ELSE days * car.pricePerDay
        kms == IF Truthy(extras.extraKms) /\ Truthy(car.extraKmCharge)
               THEN extras.extraKms * car.extraKmCharge ELSE 0
        svc == IF extras.hasServices
               THEN ServicePriceSum(extras.additionalServices) ELSE 0
    IN  base + kms + svc

calculateRentalPrice(car, days, extras) ==
    LET base ==
            IF days >= 30 /\ Truthy(car.pricePerMonth)
            THEN ((days \div 30) * car.pricePerMonth) + ((days % 30) * car.pricePerDay)
            ELSE IF days >= 7 /\ Truthy(car.pricePerWeek)
            THEN ((days \div 7) * car.pricePerWeek) + ((days % 7) * car.pricePerDay)
            ELSE days * car.pricePerDay
        kms == IF Truthy(extras.extraKms) /\ Truthy(car.extraKmCharge)
               THEN extras.extraKms * car.extraKmCharge ELSE 0
        svc == IF extras.hasServices
               THEN ServicePriceSum(extras.additionalServices) ELSE 0
    IN  base + kms + svc

\* Inputs of the pricing check: cars with every combination of a missing,
\* zero and positive weekly / monthly price.
MaxDays == 65

PriceCars ==
    [pricePerDay : {0, 3, 5}, pricePerWeek : {Null, 0, 18},
     pricePerMonth : {Null, 0, 70}, extraKmCharge : {0, 2}]

PriceExtras ==
    [extraKms : {Null, 0, 4}, hasServices : {FALSE}, additionalServices : {<<>>}]
    \cup
    [extraKms : {Null, 0, 4}, hasServices : {TRUE},
     additionalServices : {<<>>, <<[price |-> 2]>>, <<[price |-> 2], [price |-> 3]>>}]

NoArgs == [fn |-> "none"]

\* no request has been answered yet
NoResponse == [op |-> "none", code |-> 0, error |-> ""]

\* the value a call has returned, or that it has not returned yet
NoResult == [done |-> FALSE]

Ret(v) == [done |-> TRUE, value |-> v]

InitPrice ==
    /\ now = 0
    /\ bookings = <<>>
    /\ offers = <<>>
    /\ cars = <<>>
    /\ res = NoResponse
    /\ args \in [fn : {"calculateRentalPrice"}, car : PriceCars,
                 days : 0..MaxDays, extras : PriceExtras]
    /\ result = NoResult
    /\ users = Accounts

CallCalculateRentalPrice ==
    /\ args.fn = "calculateRentalPrice"
    /\ ~result.done
    /\ result' = Ret(calculateRentalPrice(args.car, args.days, args.extras))
    /\ UNCHANGED <<now, bookings, offers, cars, users, res, args>>

NextPrice == CallCalculateRentalPrice

SpecPrice == InitPrice /\ [][NextPrice]_vars

\* C4: calculateRentalPrice(days, extras) is floor(days/30)*pricePerMonth +
\* (days mod 30)*pricePerDay when days >= 30 and a monthly price is set,
\* otherwise floor(days/7)*pricePerWeek + (days mod 7)*pricePerDay when
\* days >= 7 and a weekly price is set, otherwise days*pricePerDay; plus
\* extraKms*extraKmCharge and the prices of the extra services when given.
\* The leftover days of the monthly branch are charged at the daily rate.
\* ("set" is the code's test: the field is present and not 0.)
C4_Monthly == args.days >= 30 /\ args.car.pricePerMonth \notin {Null, 0}

C4_Weekly == ~C4_Monthly /\ args.days >= 7 /\ args.car.pricePerWeek \notin {Null, 0}

C4_Extras ==
    (IF args.extras.extraKms = Null THEN 0
     ELSE args.extras.extraKms * args.car.extraKmCharge)
    + (IF args.extras.hasServices
       THEN SumSeq([i \in DOMAIN args.extras.additionalServices |->
                        args.extras.additionalServices[i].price])
       ELSE 0)

C4_RentalPrice ==
    (args.fn = "calculateRentalPrice" /\ result.done) =>
        /\ C4_Monthly =>
             result.value - C4_Extras
               = (args.days \div 30) * args.car.pricePerMonth
                 + (args.days - 30 * (args.days \div 30)) * args.car.pricePerDay
        /\ C4_Weekly =>
             result.value - C4_Extras
               = (args.days \div 7) * args.car.pricePerWeek
                 + (args.days - 7 * (args.days \div 7)) * args.car.pricePerDay
        /\ (~C4_Monthly /\ ~C4_Weekly) =>
             result.value - C4_Extras = args.days * args.car.pricePerDay

\* a rental of a month plus at least a week, on a car that has both a
\* monthly and a weekly price, with extras, has been priced
C4_Witness ==
    /\ args.fn = "calculateRentalPrice"
    /\ result.done
    /\ args.days >= 37
    /\ args.days % 30 >= 7
    /\ Truthy(args.car.pricePerMonth)
    /\ Truthy(args.car.pricePerWeek)
    /\ Truthy(args.extras.extraKms)
    /\ args.extras.hasServices
    /\ Len(args.extras.additionalServices) = 2

----------------------------------------------------------------------------
(* Offer.calculateDiscount                                                 *)

\* Fixed point: Unit parts to one currency unit.
Unit == 100 * 100 * 100

Money(n) == n * Unit

\* p percent of the amount x (x * 0.18, x * 0.10, x * p / 100 in the code).
\* Every amount the handlers take a percentage of is a multiple of 100 parts
\* (at most four decimals), so the division is exact.
Pct(x, p) == (x \div 100) * p

\* The discount before the min/max limits (the switch on this.type).
RawDiscount(offer, bookingAmount) ==
    CASE offer.type = "percentage" -> Pct(bookingAmount, offer.discountValue)
      [] offer.type = "fixed" -> Money(offer.discountValue)
      [] OTHER -> 0

\* The limits without the final cap at the booking amount.
calculateDiscountUncapped(offer, bookingAmount) ==
    LET raw == RawDiscount(offer, bookingAmount)
        d1 == IF Truthy(offer.minDiscount) /\ raw < Money(offer.minDiscount)
              THEN Money(offer.minDiscount) ELSE raw
        d2 == IF Truthy(offer.maxDiscount) /\ d1 > Money(offer.maxDiscount)
              THEN Money(offer.maxDiscount) ELSE d1
    IN  d2

\* The limits without the minimum.
calculateDiscountNoMin(offer, bookingAmount) ==
    LET raw == RawDiscount(offer, bookingAmount)
        d2 == IF Truthy(offer.maxDiscount) /\ raw > Money(offer.maxDiscount)
              THEN Money(offer.maxDiscount) ELSE raw
    IN  IF d2 > bookingAmount THEN bookingAmount ELSE d2

calculateDiscount(offer, bookingAmount) ==
    LET raw == RawDiscount(offer, bookingAmount)
        d1 == IF Truthy(offer.minDiscount) /\ raw < Money(offer.minDiscount)
              THEN Money(offer.minDiscount) ELSE raw
        d2 == IF Truthy(offer.maxDiscount) /\ d1 > Money(offer.maxDiscount)
              THEN Money(offer.maxDiscount) ELSE d1
    IN  IF d2 > bookingAmount THEN bookingAmount ELSE d2

MaxAmount == 12

DiscountOffers ==
    [type : {"percentage", "fixed", "free_days", "combo"},
     discountValue : {0, 3, 10, 50, 150},
     minDiscount : {Null, 0, 2, 8, 20},
     maxDiscount : {Null, 0, 1, 5, 20}]

InitDiscount ==
    /\ now = 0
    /\ bookings = <<>>
    /\ offers = <<>>
    /\ cars = <<>>
    /\ res = NoResponse
    /\ args \in [fn : {"calculateDiscount"}, offer : DiscountOffers,
                 bookingAmount : {Money(a) : a \in 0..MaxAmount}]
    /\ result = NoResult
    /\ users = Accounts

CallCalculateDiscount ==
    /\ args.fn = "calculateDiscount"
    /\ ~result.done
    /\ result' = Ret(calculateDiscount(args.offer, args.bookingAmount))
    /\ UNCHANGED <<now, bookings, offers, cars, users, res, args>>

NextDiscount == CallCalculateDiscount

SpecDiscount == InitDiscount /\ [][NextDiscount]_vars

\* C8: for every offer type and all non-negative discountValue, minDiscount,
\* maxDiscount and bookingAmount, calculateDiscount returns d with
\* 0 <= d <= bookingAmount; the raw discount (seen when no limit is set) is
\* bookingAmount*discountValue/100 for 'percentage', discountValue for
\* 'fixed' and 0 for every other type.
C8_RawClaimed ==
    IF args.offer.type = "percentage"
    THEN (args.bookingAmount \div Unit) * args.offer.discountValue * (Unit \div 100)
    ELSE IF args.offer.type = "fixed" THEN args.offer.discountValue * Unit
    ELSE 0

C8_DiscountBounded ==
    (args.fn = "calculateDiscount" /\ result.done) =>
        /\ 0 <= result.value
        /\ result.value <= args.bookingAmount
        /\ args.bookingAmount - result.value >= 0
        /\ (args.offer.minDiscount \in {Null, 0} /\ args.offer.maxDiscount \in {Null, 0}) =>
               result.value = Min2(C8_RawClaimed, args.bookingAmount)

\* a discount whose limited value exceeded the booking amount was capped
C8_Witness ==
    /\ args.fn = "calculateDiscount"
    /\ result.done
    /\ args.bookingAmount > 0
    /\ calculateDiscountUncapped(args.offer, args.bookingAmount) > args.bookingAmount
    /\ result.value = args.bookingAmount

\* C9 as stated: whenever minDiscount is set the returned discount is at
\* least minDiscount, and whenever maxDiscount is set it is at most
\* maxDiscount, for every bookingAmount and every offer type.
C9_LimitsAsStated ==
    (args.fn = "calculateDiscount" /\ result.done) =>
        /\ args.offer.minDiscount # Null => result.value >= Money(args.offer.minDiscount)
        /\ args.offer.maxDiscount # Null => result.value <= Money(args.offer.maxDiscount)

\* C9 amended: whenever maxDiscount is set to a positive value the returned
\* discount is at most maxDiscount; whenever minDiscount is set to a positive
\* value the returned discount is at least the smallest of minDiscount, the
\* booking amount and (when set to a positive value) maxDiscount.
C9_Limits ==
    (args.fn = "calculateDiscount" /\ result.done) =>
        /\ args.offer.maxDiscount \notin {Null, 0} =>
               result.value <= Money(args.offer.maxDiscount)
        /\ args.offer.minDiscount \notin {Null, 0} =>
               /\ result.value >= args.bookingAmount
                  \/ result.value >= Money(args.offer.minDiscount)
                  \/ /\ args.offer.maxDiscount \notin {Null, 0}
                     /\ result.value >= Money(args.offer.maxDiscount)

\* the minimum raised a smaller raw discount, and the booking amount then
\* capped the result below the minimum
C9_Witness ==
    /\ args.fn = "calculateDiscount"
    /\ result.done
    /\ Truthy(args.offer.minDiscount)
    /\ RawDiscount(args.offer, args.bookingAmount) < args.bookingAmount
    /\ Money(args.offer.minDiscount) > args.bookingAmount
    /\ result.value = args.bookingAmount
    /\ result.value > 0

----------------------------------------------------------------------------
(* Booking: canBeCancelled, calculateCancellationFee                       *)

BookingStatuses ==
    {"pending", "confirmed", "cancelled", "active", "completed", "no_show", "disputed"}

\* cancellation sub-document of a booking that was never cancelled
NoCancellation == [initiatedBy |-> "none"]

\* (this.pickupDate - now) / (1000 * 60 * 60)
hoursUntilPickup(booking, t) == booking.pickupDate - t

\* The check with the 24-hour boundary excluded (<= for <).
canBeCancelledAfter24(booking, t) ==
    IF booking.status # "confirmed" /\ booking.status # "pending" THEN FALSE
    ELSE IF hoursUntilPickup(booking, t) <= 24 THEN FALSE
    ELSE TRUE

canBeCancelled(booking, t) ==
    IF booking.status # "confirmed" /\ booking.status # "pending" THEN FALSE
    ELSE IF hoursUntilPickup(booking, t) < 24 THEN FALSE
    ELSE TRUE

\* The fee brackets with the boundaries on the other side (>= for >).
calculateCancellationFeeInclusive(booking, t) ==
    IF hoursUntilPickup(booking, t) >= 48 THEN Pct(booking.totalAmount, 10)
    ELSE IF hoursUntilPickup(booking, t) >= 24 THEN Pct(booking.totalAmount, 25)
    ELSE Pct(booking.totalAmount, 50)

calculateCancellationFee(booking, t) ==
    IF hoursUntilPickup(booking, t) > 48 THEN Pct(booking.totalAmount, 10)
    ELSE IF hoursUntilPickup(booking, t) > 24 THEN Pct(booking.totalAmount, 25)
    ELSE Pct(booking.totalAmount, 50)

MaxFeeHour == 60

FeeTotals == {0, Money(1), Money(40), 47200000, 12345600}

InitFee ==
    /\ now \in 0..MaxFeeHour
    /\ bookings = <<>>
    /\ offers = <<>>
    /\ cars = <<>>
    /\ res = NoResponse
    /\ args \in [fn : {"calculateCancellationFee"},
                 booking : [pickupDate : 0..MaxFeeHour, totalAmount : FeeTotals]]
    /\ result = NoResult
    /\ users = Accounts

CallCalculateCancellationFee ==
    /\ args.fn = "calculateCancellationFee"
    /\ ~result.done
    /\ result' = Ret(calculateCancellationFee(args.booking, now))
    /\ UNCHANGED <<now, bookings, offers, cars, users, res, args>>

NextFee == CallCalculateCancellationFee

SpecFee == InitFee /\ [][NextFee]_vars

\* C5: calculateCancellationFee returns 10% of totalAmount when more than 48
\* hours remain until pickupDate, 25% when more than 24 and at most 48 hours
\* remain, and 50% otherwise (the invoice terms: within 24 hours 50%, 24-48
\* hours 25%, more than 48 hours 10%).
C5_Remaining == args.booking.pickupDate - now

C5_CancellationFee ==
    (args.fn = "calculateCancellationFee" /\ result.done) =>
        /\ C5_Remaining > 48 => result.value * 10 = args.booking.totalAmount
        /\ (C5_Remaining > 24 /\ C5_Remaining <= 48) =>
               result.value * 4 = args.booking.totalAmount
        /\ C5_Remaining <= 24 => result.value * 2 = args.booking.totalAmount

\* the fee was taken at exactly 48 hours before pickup (the 25% bracket)
C5_Witness ==
    /\ args.fn = "calculateCancellationFee"
    /\ result.done
    /\ C5_Remaining = 48
    /\ args.booking.totalAmount > 0
    /\ result.value * 4 = args.booking.totalAmount

----------------------------------------------------------------------------
(* Car.isAvailableForDates                                                 *)

CarIds == {"c1", "c2"}

Users == {"u1", "u2"}

BlockingStatuses == {"confirmed", "active", "pending"}

\* Booking.find({car, status: {$in: [...]}, pickupDate <= endDate, dropoffDate >= startDate})
overlappingBookings(store, carId, startDate, endDate) ==
    {i \in DOMAIN store :
        /\ store[i].car = carId
        /\ store[i].status \in BlockingStatuses
        /\ store[i].pickupDate <= endDate
        /\ store[i].dropoffDate >= startDate}

\* The query with strict comparisons (touching ranges do not conflict).
isAvailableForDatesStrict(store, carId, startDate, endDate) ==
    {i \in DOMAIN store :
        /\ store[i].car = carId
        /\ store[i].status \in BlockingStatuses
        /\ store[i].pickupDate < endDate
        /\ store[i].dropoffDate > startDate} = {}

isAvailableForDates(store, carId, startDate, endDate) ==
    Cardinality(overlappingBookings(store, carId, startDate, endDate)) = 0

\* Instants for the stored and the queried ranges: enough for two ranges
\* to lie apart, touch, overlap or contain one another.
AvailDates == {0, 1, 2, 3}

MaxAvailStore == 2

AvailBookings ==
    {[car |-> c, status |-> st, pickupDate |-> p, dropoffDate |-> d] :
        c \in CarIds, st \in BookingStatuses, p \in AvailDates, d \in AvailDates}

AvailStores ==
    UNION {[1..n -> {b \in AvailBookings : b.pickupDate < b.dropoffDate}] :
             n \in 0..MaxAvailStore}

InitAvail ==
    /\ now = 0
    /\ bookings \in AvailStores
    /\ offers = <<>>
    /\ cars = <<>>
    /\ res = NoResponse
    /\ args \in [fn : {"isAvailableForDates"}, car : CarIds,
                 startDate : AvailDates, endDate : AvailDates]
    /\ args.startDate < args.endDate
    /\ result = NoResult
    /\ users = Accounts

CallIsAvailableForDates ==
    /\ args.fn = "isAvailableForDates"
    /\ ~result.done
    /\ result' = Ret(isAvailableForDates(bookings, args.car, args.startDate, args.endDate))
    /\ UNCHANGED <<now, bookings, offers, cars, users, res, args>>

NextAvail == CallIsAvailableForDates

SpecAvail == InitAvail /\ [][NextAvail]_vars

\* C2: isAvailableForDates(startDate, endDate) is true if and only if the car
\* has no booking with status confirmed, active or pending such that
\* pickupDate <= endDate and dropoffDate >= startDate (touching ranges
\* conflict); bookings with status cancelled, completed, no_show or disputed
\* and bookings of other cars never affect the result.
C2_Conflict(b) ==
    /\ b.car = args.car
    /\ b.status \notin {"cancelled", "completed", "no_show", "disputed"}
    /\ ~(b.pickupDate > args.endDate \/ b.dropoffDate < args.startDate)

C2_Availability ==
    (args.fn = "isAvailableForDates" /\ result.done) =>
        (result.value <=> ~(\E i \in DOMAIN bookings : C2_Conflict(bookings[i])))

\* refused because of a booking that ends exactly at startDate, while a
\* cancelled booking of the same car and a booking of another car overlap
C2_Witness ==
    /\ args.fn = "isAvailableForDates"
    /\ result.done
    /\ result.value = FALSE
    /\ args.startDate < args.endDate
    /\ \E i \in DOMAIN bookings :
          /\ bookings[i].car = args.car
          /\ bookings[i].status = "pending"
          /\ bookings[i].dropoffDate = args.startDate
    /\ \A i \in DOMAIN bookings :
          (bookings[i].car = args.car /\ bookings[i].status \in BlockingStatuses)
             => bookings[i].dropoffDate = args.startDate

----------------------------------------------------------------------------
(* Offer: isValid, isActiveToday, canApplyToBooking, pre('save')           *)

DayNames == <<"mon", "tue", "wed", "thu", "fri", "sat", "sun">>

\* new Date().toLocaleDateString('en-US', {weekday: 'short'}).toLowerCase()
Weekday(t) == DayNames[((t \div 24) % 7) + 1]

\* now.getHours() * 60 + now.getMinutes()
MinuteOfDay(t) == (t % 24) * 60

\* "HH:MM".split(':').map(Number), then hour * 60 + minute; a clock time is
\* kept as the pair of its two fields, the empty tuple when the string is unset
ClockMinutes(hhmm) == hhmm[1] * 60 + hhmm[2]

isValid(offer, t) ==
    /\ offer.status = "active"
    /\ offer.validFrom <= t
    /\ offer.validUntil >= t

isActiveToday(offer, t) ==
    IF ~isValid(offer, t) THEN FALSE
    ELSE IF offer.activeDays # {} THEN Weekday(t) \in offer.activeDays
    ELSE TRUE

\* The eligibility check without the validity-window test.
canApplyToBookingNoValidity(offer, d, t) ==
    IF offer.status # "active"
    THEN [valid |-> FALSE, reason |-> "Offer is not active"]
    ELSE IF Truthy(offer.usageLimit) /\ offer.usedCount >= offer.usageLimit
    THEN [valid |-> FALSE, reason |-> "Offer usage limit reached"]
    ELSE IF d.totalAmount < Money(offer.minBookingAmount)
    THEN [valid |-> FALSE, reason |-> "Minimum booking amount required"]
    ELSE IF d.totalDays < offer.minRentalDays
    THEN [valid |-> FALSE, reason |-> "Minimum days rental required"]
    ELSE IF offer.applicableCars # {} /\ d.carId \notin offer.applicableCars
    THEN [valid |-> FALSE, reason |-> "Offer not applicable for this car"]
    ELSE IF offer.excludedCars # {} /\ d.carId \in offer.excludedCars
    THEN [valid |-> FALSE, reason |-> "Offer not applicable for this car"]
    ELSE IF offer.applicableCategories # {} /\ d.category \notin offer.applicableCategories
    THEN [valid |-> FALSE, reason |-> "Offer not applicable for this car category"]
    ELSE IF /\ offer.activeHours.from # <<>>
            /\ offer.activeHours.to # <<>>
            /\ \/ MinuteOfDay(t) < ClockMinutes(offer.activeHours.from)
               \/ MinuteOfDay(t) > ClockMinutes(offer.activeHours.to)
    THEN [valid |-> FALSE, reason |-> "Offer not active at this time"]
    ELSE [valid |-> TRUE, reason |-> ""]

\* The eligibility check without the usage-limit test.
canApplyToBookingNoUsage(offer, d, t) ==
    IF ~isValid(offer, t) \/ ~isActiveToday(offer, t)
    THEN [valid |-> FALSE, reason |-> "Offer is not active"]
    ELSE IF d.totalAmount < Money(offer.minBookingAmount)
    THEN [valid |-> FALSE, reason |-> "Minimum booking amount required"]
    ELSE IF d.totalDays < offer.minRentalDays
    THEN [valid |-> FALSE, reason |-> "Minimum days rental required"]
    ELSE IF offer.applicableCars # {} /\ d.carId \notin offer.applicableCars
    THEN [valid |-> FALSE, reason |-> "Offer not applicable for this car"]
    ELSE IF offer.excludedCars # {} /\ d.carId \in offer.excludedCars
    THEN [valid |-> FALSE, reason |-> "Offer not applicable for this car"]
    ELSE IF offer.applicableCategories # {} /\ d.category \notin offer.applicableCategories
    THEN [valid |-> FALSE, reason |-> "Offer not applicable for this car category"]
    ELSE IF /\ offer.activeHours.from # <<>>
            /\ offer.activeHours.to # <<>>
            /\ \/ MinuteOfDay(t) < ClockMinutes(offer.activeHours.from)
               \/ MinuteOfDay(t) > ClockMinutes(offer.activeHours.to)
    THEN [valid |-> FALSE, reason |-> "Offer not active at this time"]
    ELSE [valid |-> TRUE, reason |-> ""]

canApplyToBooking(offer, d, t) ==
    IF ~isValid(offer, t) \/ ~isActiveToday(offer, t)
    THEN [valid |-> FALSE, reason |-> "Offer is not active"]
    ELSE IF Truthy(offer.usageLimit) /\ offer.usedCount >= offer.usageLimit
    THEN [valid |-> FALSE, reason |-> "Offer usage limit reached"]
    ELSE IF d.totalAmount < Money(offer.minBookingAmount)
    THEN [valid |-> FALSE, reason |-> "Minimum booking amount required"]
    ELSE IF d.totalDays < offer.minRentalDays
    THEN [valid |-> FALSE, reason |-> "Minimum days rental required"]
    ELSE IF offer.applicableCars # {} /\ d.carId \notin offer.applicableCars
    THEN [valid |-> FALSE, reason |-> "Offer not applicable for this car"]
    ELSE IF offer.excludedCars # {} /\ d.carId \in offer.excludedCars
    THEN [valid |-> FALSE, reason |-> "Offer not applicable for this car"]
    ELSE IF offer.applicableCategories # {} /\ d.category \notin offer.applicableCategories
    THEN [valid |-> FALSE, reason |-> "Offer not applicable for this car category"]
    ELSE IF /\ offer.activeHours.from # <<>>
            /\ offer.activeHours.to # <<>>
            /\ \/ MinuteOfDay(t) < ClockMinutes(offer.activeHours.from)
               \/ MinuteOfDay(t) > ClockMinutes(offer.activeHours.to)
    THEN [valid |-> FALSE, reason |-> "Offer not active at this time"]
    ELSE [valid |-> TRUE, reason |-> ""]

\* offerSchema.pre('save'): the status follows the validity window
OfferPreSave(offer, t) ==
    [offer EXCEPT !.status =
        IF offer.validUntil < t THEN "expired"
        ELSE IF offer.validFrom > t THEN "scheduled"
        ELSE "active"]

\* offer.usedCount += 1; offer.usersUsed.push({user, usedAt, booking}); offer.save()
RecordOfferUse(offer, user, bookingId, t) ==
    OfferPreSave([offer EXCEPT !.usedCount = @ + 1,
                               !.usersUsed = Append(@, [user |-> user, booking |-> bookingId])],
                 t)

\* promoCode.toUpperCase() / offerCode.toUpperCase() on the codes requests carry
ToUpperCase(code) ==
    CASE code = "save10" -> "SAVE10"
      [] code = "nope" -> "NOPE"
      [] OTHER -> code

\* Offer.findOne({code, status: 'active'}): the code found, or "" for null
FindActiveOffer(store, code) ==
    IF code \in DOMAIN store /\ store[code].status = "active" THEN code ELSE ""

----------------------------------------------------------------------------
(* The stores and the request handlers                                     *)

\* The car collection; prices and deposits in whole currency units.
Cars ==
    ("c1" :> [status |-> "active", category |-> "suv", pricePerDay |-> 5,
              pricePerWeek |-> Null, pricePerMonth |-> Null,
              extraKmCharge |-> 10, securityDeposit |-> 10])
    @@
    ("c2" :> [status |-> "active", category |-> "sedan", pricePerDay |-> 3,
              pricePerWeek |-> 18, pricePerMonth |-> Null,
              extraKmCharge |-> 10, securityDeposit |-> 4])
    @@
    ("c3" :> [status |-> "inactive", category |-> "sedan", pricePerDay |-> 3,
              pricePerWeek |-> Null, pricePerMonth |-> Null,
              extraKmCharge |-> 10, securityDeposit |-> 4])

\* calculateRentalPrice(totalDays): extras defaults to {}
NoExtras == [extraKms |-> Null, hasServices |-> FALSE, additionalServices |-> <<>>]

Respond(op, code, error) == [op |-> op, code |-> code, error |-> error]

\* servicesTotal: sum of service.price * service.quantity
RECURSIVE ServicesTotal(_)
ServicesTotal(s) ==
    IF s = <<>> THEN 0
    ELSE Money(Head(s).price * Head(s).quantity) + ServicesTotal(Tail(s))

\* additionalCharges entries of type 'service', one per requested service
ServiceCharges(s) ==
    [i \in DOMAIN s |-> [type |-> "service", amount |-> Money(s[i].price * s[i].quantity)]]

\* The promo step of createBooking: the offer that is accepted ("" for none)
AcceptedPromo(u, carId, totalDays, amount, promoCode) ==
    IF promoCode = "" THEN ""
    ELSE LET code == FindActiveOffer(offers, ToUpperCase(promoCode))
         IN  IF code = "" THEN ""
             ELSE IF canApplyToBooking(offers[code],
                        [totalAmount |-> amount, totalDays |-> totalDays,
                         carId |-> carId, category |-> Cars[carId].category,
                         userId |-> u], now).valid
             THEN code ELSE ""

\* The tax taken before the discount is subtracted.
NewBookingTaxBeforeDiscount(u, carId, pickupDate, dropoffDate, additionalServices, promo) ==
    LET totalDays == CeilDiv(dropoffDate - pickupDate, 24)
        baseAmount == Money(calculateRentalPrice(Cars[carId], totalDays, NoExtras))
        servicesTotal == ServicesTotal(additionalServices)
        discountAmount ==
            IF promo = "" THEN 0
            ELSE calculateDiscount(offers[promo], baseAmount + servicesTotal)
        taxAmount == Pct(baseAmount + servicesTotal, 18)
        securityDeposit == Money(Cars[carId].securityDeposit)
    IN  [user |-> u, car |-> carId,
         pickupDate |-> pickupDate, dropoffDate |-> dropoffDate,
         totalDays |-> totalDays,
         additionalServices |-> additionalServices,
         baseAmount |-> baseAmount,
         securityDeposit |-> securityDeposit,
         additionalCharges |->
             ServiceCharges(additionalServices)
             \o (IF promo = "" THEN <<>>
                 ELSE <<[type |-> "discount", amount |-> 0 - discountAmount]>>)
             \o <<[type |-> "tax", amount |-> taxAmount]>>,
         discountAmount |-> discountAmount,
         taxAmount |-> taxAmount,
         totalAmount |-> baseAmount + servicesTotal + taxAmount - discountAmount + securityDeposit,
         paidAmount |-> 0,
         payment |-> [status |-> "pending"],
         status |-> "pending",
         cancellation |-> NoCancellation,
         promoCode |-> ""]

\* The document Booking.create receives in createBooking (the pre('save')
\* hook recomputes the same totalDays and assigns the booking number).
NewBooking(u, carId, pickupDate, dropoffDate, additionalServices, promo) ==
    LET totalDays == CeilDiv(dropoffDate - pickupDate, 24)
        baseAmount == Money(calculateRentalPrice(Cars[carId], totalDays, NoExtras))
        servicesTotal == ServicesTotal(additionalServices)
        discountAmount ==
            IF promo = "" THEN 0
            ELSE calculateDiscount(offers[promo], baseAmount + servicesTotal)
        taxableAmount == baseAmount + servicesTotal - discountAmount
        taxAmount == Pct(taxableAmount, 18)
        securityDeposit == Money(Cars[carId].securityDeposit)
    IN  [user |-> u, car |-> carId,
         pickupDate |-> pickupDate, dropoffDate |-> dropoffDate,
         totalDays |-> totalDays,
         additionalServices |-> additionalServices,
         baseAmount |-> baseAmount,
         securityDeposit |-> securityDeposit,
         additionalCharges |->
             ServiceCharges(additionalServices)
             \o (IF promo = "" THEN <<>>
                 ELSE <<[type |-> "discount", amount |-> 0 - discountAmount]>>)
             \o <<[type |-> "tax", amount |-> taxAmount]>>,
         discountAmount |-> discountAmount,
         taxAmount |-> taxAmount,
         totalAmount |-> baseAmount + servicesTotal + taxAmount - discountAmount + securityDeposit,
         paidAmount |-> 0,
         payment |-> [status |-> "pending"],
         status |-> "pending",
         cancellation |-> NoCancellation,
         promoCode |-> ""]

MaxBookings == 2

\* The answer of createBooking when it refuses the request before creating
\* anything, NoResponse when no check refuses it.
createBookingRefusal(carId, pickupDate, dropoffDate) ==
    IF pickupDate >= dropoffDate
    THEN Respond("createBooking", 400, "Dropoff date must be after pickup date")
    ELSE IF pickupDate < now + 2
    THEN Respond("createBooking", 400, "Pickup must be at least 2 hours from now")
    ELSE IF carId \notin DOMAIN Cars \/ Cars[carId].status # "active"
    THEN Respond("createBooking", 404, "Car not found or not available")
    ELSE IF ~isAvailableForDates(bookings, carId, pickupDate, dropoffDate)
    THEN Respond("createBooking", 400, "Car not available for selected dates")
    ELSE NoResponse

\* POST /api/bookings
createBooking(u, carId, pickupDate, dropoffDate, additionalServices, promoCode) ==
    /\ IF createBookingRefusal(carId, pickupDate, dropoffDate) # NoResponse
       THEN /\ res' = createBookingRefusal(carId, pickupDate, dropoffDate)
            /\ UNCHANGED <<bookings, offers>>
       ELSE LET totalDays == CeilDiv(dropoffDate - pickupDate, 24)
                baseAmount == Money(calculateRentalPrice(Cars[carId], totalDays, NoExtras))
                promo == AcceptedPromo(u, carId, totalDays,
                                       baseAmount + ServicesTotal(additionalServices), promoCode)
            IN  /\ Len(bookings) < MaxBookings
                /\ offers' = IF promo = "" THEN offers
                             ELSE [offers EXCEPT ![promo] = RecordOfferUse(@, u, 0, now)]
                /\ bookings' = Append(bookings,
                                  NewBooking(u, carId, pickupDate, dropoffDate,
                                             additionalServices, promo))
                /\ res' = Respond("createBooking", 201, "")
    /\ UNCHANGED <<now, cars, users, args, result>>

\* The enum validators of bookingSchema that run when a booking is saved.
PaymentStatuses == {"pending", "partial", "paid", "failed", "refunded"}

RefundStatuses == {"pending", "processed", "failed"}

BookingValidates(b) ==
    /\ b.status \in BookingStatuses
    /\ b.payment.status \in PaymentStatuses
    /\ b.cancellation # NoCancellation =>
          /\ b.cancellation.initiatedBy \in {"user", "admin", "system"}
          /\ b.cancellation.refundStatus \in RefundStatuses

\* Booking.findOne({_id: id, user: u}): does the user own such a booking
OwnsBooking(u, id) == id \in DOMAIN bookings /\ bookings[id].user = u

\* The booking as cancelBooking has changed it when it calls booking.save()
CancelledBooking(b) ==
    LET cancellationFee == calculateCancellationFee(b, now)
    IN  [b EXCEPT
           !.status = "cancelled",
           !.cancellation =
               [initiatedBy |-> "user",
                cancellationFee |-> cancellationFee,
                refundAmount |-> IF b.payment.status = "paid"
                                 THEN b.totalAmount - cancellationFee ELSE 0,
                refundStatus |-> IF b.payment.status = "paid"
                                 THEN "pending" ELSE "not_applicable"],
           !.payment.status = IF b.payment.status = "paid"
                              THEN "refund_pending" ELSE @]

\* PUT /api/bookings/:id/cancel
cancelBooking(u, id) ==
    /\ IF ~OwnsBooking(u, id)
       THEN /\ res' = Respond("cancelBooking", 404, "Booking not found")
            /\ UNCHANGED <<bookings, cars>>
       ELSE IF ~canBeCancelled(bookings[id], now)
       THEN /\ res' = Respond("cancelBooking", 400, "Booking cannot be cancelled at this time")
            /\ UNCHANGED <<bookings, cars>>
       ELSE IF ~BookingValidates(CancelledBooking(bookings[id]))
       THEN \* booking.save() rejects: the catch block answers 500
            /\ res' = Respond("cancelBooking", 500, "Booking validation failed")
            /\ UNCHANGED <<bookings, cars>>
       ELSE /\ bookings' = [bookings EXCEPT ![id] = CancelledBooking(@)]
            /\ cars' = [cars EXCEPT ![bookings[id].car].availability = "available"]
            /\ res' = Respond("cancelBooking", 200, "")
    /\ UNCHANGED <<now, offers, users, args, result>>

\* PUT /api/bookings/:id with body {status}: the admin sets the status
updateBooking(id, status) ==
    /\ IF id \notin DOMAIN bookings
       THEN /\ res' = Respond("updateBooking", 404, "Booking not found")
            /\ UNCHANGED <<bookings, cars>>
       ELSE LET booking == [bookings[id] EXCEPT !.status = status]
            IN  \* the status is already assigned, so neither branch is taken
                /\ cars' = IF status = "active" /\ booking.status # "active"
                           THEN [cars EXCEPT ![booking.car].availability = "booked"]
                           ELSE IF status = "completed" /\ booking.status # "completed"
                           THEN [cars EXCEPT ![booking.car].availability = "available"]
                           ELSE cars
                /\ IF BookingValidates(booking)
                   THEN /\ bookings' = [bookings EXCEPT ![id] = booking]
                        /\ res' = Respond("updateBooking", 200, "")
                   ELSE /\ bookings' = bookings
                        /\ res' = Respond("updateBooking", 500, "Booking validation failed")
    /\ UNCHANGED <<now, offers, users, args, result>>

\* newTotal of processReturn: baseAmount, plus every charge, a charge of type
\* 'discount' subtracted
RECURSIVE ChargesTotal(_)
ChargesTotal(charges) ==
    IF charges = <<>> THEN 0
    ELSE (IF Head(charges).type = "discount"
          THEN 0 - Head(charges).amount ELSE Head(charges).amount)
         + ChargesTotal(Tail(charges))

\* POST /api/bookings/:id/return (no mileage reading, fuel level as at pickup)
processReturn(id, extraCharges) ==
    /\ IF id \notin DOMAIN bookings
       THEN /\ res' = Respond("processReturn", 404, "Booking not found")
            /\ UNCHANGED <<bookings, cars>>
       ELSE IF bookings[id].status # "active"
       THEN /\ res' = Respond("processReturn", 400, "Booking is not active")
            /\ UNCHANGED <<bookings, cars>>
       ELSE LET charges == bookings[id].additionalCharges \o extraCharges
            IN  /\ bookings' = [bookings EXCEPT
                                  ![id].additionalCharges = charges,
                                  ![id].totalAmount = bookings[id].baseAmount + ChargesTotal(charges),
                                  ![id].status = "completed"]
                /\ cars' = [cars EXCEPT ![bookings[id].car].availability = "available"]
                /\ res' = Respond("processReturn", 200, "")
    /\ UNCHANGED <<now, offers, users, args, result>>

\* POST /api/offers/apply
applyOffer(u, bookingId, offerCode) ==
    /\ IF ~OwnsBooking(u, bookingId)
       THEN /\ res' = Respond("applyOffer", 404, "Booking not found")
            /\ UNCHANGED <<bookings, offers>>
       ELSE IF bookings[bookingId].promoCode # ""
       THEN /\ res' = Respond("applyOffer", 400, "Booking already has an offer applied")
            /\ UNCHANGED <<bookings, offers>>
       ELSE IF FindActiveOffer(offers, ToUpperCase(offerCode)) = ""
       THEN /\ res' = Respond("applyOffer", 404, "Invalid offer code")
            /\ UNCHANGED <<bookings, offers>>
       ELSE LET booking == bookings[bookingId]
                code == FindActiveOffer(offers, ToUpperCase(offerCode))
                eligibility ==
                    canApplyToBooking(offers[code],
                        [totalAmount |-> booking.baseAmount,
                         totalDays |-> booking.totalDays,
                         carId |-> booking.car,
                         category |-> Cars[booking.car].category,
                         userId |-> u], now)
                discount == calculateDiscount(offers[code], booking.baseAmount)
            IN  IF ~eligibility.valid
                THEN /\ res' = Respond("applyOffer", 400, eligibility.reason)
                     /\ UNCHANGED <<bookings, offers>>
                ELSE /\ bookings' = [bookings EXCEPT
                            ![bookingId].promoCode = code,
                            ![bookingId].discountAmount = discount,
                            ![bookingId].totalAmount =
                                booking.baseAmount - discount + booking.taxAmount,
                            ![bookingId].additionalCharges =
                                Append(@, [type |-> "discount", amount |-> 0 - discount])]
                     /\ offers' = [offers EXCEPT ![code] = RecordOfferUse(@, u, bookingId, now)]
                     /\ res' = Respond("applyOffer", 200, "")
    /\ UNCHANGED <<now, cars, users, args, result>>

\* The instants at which requests arrive (hours): around the 2-hour notice
\* of createBooking and the 24- and 48-hour marks of cancellation.
NowPoints == {0, 26, 27, 48, 49}

\* The clock advances between requests.
Tick ==
    /\ \E t \in NowPoints : t > now /\ now' = t
    /\ UNCHANGED <<bookings, offers, cars, users, res, args, result>>

----------------------------------------------------------------------------
(* The booking life cycle                                                  *)

\* An offer open to every user, car and day: 10% off until hour 48.
BaseOffer ==
    [status |-> "active", validFrom |-> 0, validUntil |-> 48,
     activeDays |-> {}, activeHours |-> [from |-> <<>>, to |-> <<>>],
     usageLimit |-> Null, perUserLimit |-> 1, usedCount |-> 0, usersUsed |-> <<>>,
     minBookingAmount |-> 0, minRentalDays |-> 0,
     applicableFor |-> "all", specificUsers |-> {},
     applicableCars |-> {}, excludedCars |-> {}, applicableCategories |-> {},
     type |-> "percentage", discountValue |-> 10,
     minDiscount |-> Null, maxDiscount |-> Null]

\* Pickup and dropoff instants of the requests (hours): two touching ranges,
\* one inside the first and apart from the second, and one that ends before
\* it starts.
Ranges == {<<50, 74>>, <<74, 98>>, <<50, 62>>, <<74, 50>>}

ServiceLists == {<<>>, <<[price |-> 2, quantity |-> 3]>>}

PromoCodes == {"", "save10", "nope"}

ReturnCharges == {<<[type |-> "penalty", amount |-> Money(5)]>>}

\* The status changes an admin makes through updateBooking.
AdminAdvances ==
    {<<"pending", "confirmed">>, <<"confirmed", "active">>,
     <<"pending", "cancelled">>, <<"confirmed", "cancelled">>}

Init ==
    /\ now = 0
    /\ bookings = <<>>
    /\ offers = ("SAVE10" :> BaseOffer)
    /\ cars = [c \in DOMAIN Cars |-> [availability |-> IF c = "c1" THEN "booked" ELSE "available"]]
    /\ res = NoResponse
    /\ args = NoArgs
    /\ result = NoResult
    /\ users = Accounts

CreateBooking ==
    \E u \in Users, carId \in DOMAIN Cars, range \in Ranges :
        createBooking(u, carId, range[1], range[2], <<>>, "")

CancelBooking == \E u \in Users, id \in 1..MaxBookings : cancelBooking(u, id)

AdminAdvance ==
    \E id \in 1..MaxBookings, status \in BookingStatuses :
        /\ id \in DOMAIN bookings => <<bookings[id].status, status>> \in AdminAdvances
        /\ updateBooking(id, status)

ProcessReturn ==
    \E id \in 1..MaxBookings, extraCharges \in ReturnCharges : processReturn(id, extraCharges)

Next == Tick \/ CreateBooking \/ CancelBooking \/ AdminAdvance \/ ProcessReturn

Spec == Init /\ [][Next]_vars

\* Two bookings block each other: same car, both pending, confirmed or
\* active, and closed date ranges that share an instant.
C1_Clash(a, b) ==
    /\ a.car = b.car
    /\ a.status \in {"pending", "confirmed", "active"}
    /\ b.status \in {"pending", "confirmed", "active"}
    /\ a.pickupDate <= b.dropoffDate
    /\ b.pickupDate <= a.dropoffDate

C1_NoDoubleBooking ==
    \A i \in DOMAIN bookings : \A j \in DOMAIN bookings :
        i # j => ~C1_Clash(bookings[i], bookings[j])

\* the range [pickupDate, dropoffDate] requested for the car overlaps a
\* pending, confirmed or active booking of that car
C1_RequestOverlaps(carId, pickupDate, dropoffDate) ==
    /\ pickupDate < dropoffDate
    /\ \E i \in DOMAIN bookings :
          /\ bookings[i].car = carId
          /\ bookings[i].status \in {"pending", "confirmed", "active"}
          /\ bookings[i].pickupDate <= dropoffDate
          /\ pickupDate <= bookings[i].dropoffDate

C1_Refused ==
    /\ res' = Respond("createBooking", 400, "Car not available for selected dates")
    /\ bookings' = bookings

C6_Cancellable(b) ==
    /\ b.status \in {"pending", "confirmed"}
    /\ b.pickupDate - now >= 24

C7_CancelPersists ==
    [][\A u \in Users, id \in 1..MaxBookings :
          (/\ cancelBooking(u, id)
           /\ id \in DOMAIN bookings
           /\ bookings[id].user = u
           /\ canBeCancelled(bookings[id], now))
          => /\ res'.code = 200
             /\ bookings'[id].status = "cancelled"
             /\ bookings'[id].cancellation.initiatedBy = "user"
             /\ bookings'[id].cancellation.cancellationFee
                   = calculateCancellationFee(bookings[id], now)
             /\ bookings'[id].cancellation.refundAmount
                   = IF bookings[id].payment.status = "paid"
                     THEN bookings[id].totalAmount
                          - calculateCancellationFee(bookings[id], now)
                     ELSE 0
             /\ id \notin overlappingBookings(bookings', bookings[id].car,
                              bookings[id].pickupDate, bookings[id].dropoffDate)]_vars

----------------------------------------------------------------------------
(* Offers applied to bookings                                              *)

\* The offers an admin may have stored under the code SAVE10: the open
\* offer, and the open offer with one eligibility rule tightened.
OfferVariants ==
    {BaseOffer,
     [BaseOffer EXCEPT !.status = "inactive"],
     [BaseOffer EXCEPT !.validFrom = 26],
     [BaseOffer EXCEPT !.validUntil = 26],
     [BaseOffer EXCEPT !.activeDays = {"tue"}],
     [BaseOffer EXCEPT !.activeDays = {"mon", "wed"}],
     [BaseOffer EXCEPT !.activeHours = [from |-> <<1, 0>>, to |-> <<2, 30>>]],
     [BaseOffer EXCEPT !.minBookingAmount = 10],
     [BaseOffer EXCEPT !.minRentalDays = 2],
     [BaseOffer EXCEPT !.applicableCars = {"c1"}],
     [BaseOffer EXCEPT !.excludedCars = {"c1"}],
     [BaseOffer EXCEPT !.applicableCategories = {"sedan"}],
     [BaseOffer EXCEPT !.usageLimit = 1],
     [BaseOffer EXCEPT !.type = "fixed", !.discountValue = 4, !.maxDiscount = 3],
     [BaseOffer EXCEPT !.type = "free_days", !.minDiscount = 2]}

\* One-day and two-day rentals.
OfferRanges == {<<50, 74>>, <<50, 98>>}

InitOffer ==
    /\ now = 0
    /\ bookings = <<>>
    /\ offers \in {("SAVE10" :> o) : o \in OfferVariants}
    /\ cars = [c \in DOMAIN Cars |-> [availability |-> "available"]]
    /\ res = NoResponse
    /\ args = NoArgs
    /\ result = NoResult
    /\ users = Accounts

CreateBookingWithPromo ==
    \E carId \in CarIds, range \in OfferRanges,
       additionalServices \in ServiceLists, promoCode \in PromoCodes :
        createBooking("u1", carId, range[1], range[2], additionalServices, promoCode)

ApplyOffer ==
    \E u \in Users, bookingId \in 1..MaxBookings, offerCode \in PromoCodes \ {""} :
        applyOffer(u, bookingId, offerCode)

NextOffer == Tick \/ CreateBookingWithPromo \/ ApplyOffer

SpecOffer == InitOffer /\ [][NextOffer]_vars

\* C3: every booking created by createBooking has taxAmount = 18% of
\* (baseAmount + servicesTotal - discountAmount) and totalAmount = baseAmount
\* + servicesTotal + taxAmount - discountAmount + securityDeposit, where
\* baseAmount = car.calculateRentalPrice(totalDays), servicesTotal is the sum
\* of price*quantity over the requested services, discountAmount is 0 unless
\* a promo code was accepted, and status 'pending', paidAmount 0 and
\* payment.status 'pending'.
C3_ServicesTotal(b) ==
    SumSeq([i \in DOMAIN b.additionalServices |->
               b.additionalServices[i].price * b.additionalServices[i].quantity]) * Unit

C3_Created(b) ==
    /\ b.totalDays = CeilDiv(b.dropoffDate - b.pickupDate, 24)
    /\ b.baseAmount = calculateRentalPrice(Cars[b.car], b.totalDays, NoExtras) * Unit
    /\ b.taxAmount * 100 = 18 * (b.baseAmount + C3_ServicesTotal(b) - b.discountAmount)
    /\ b.totalAmount = b.baseAmount + C3_ServicesTotal(b) + b.taxAmount
                         - b.discountAmount + b.securityDeposit
    /\ b.securityDeposit = Cars[b.car].securityDeposit * Unit
    /\ b.discountAmount # 0 => offers' # offers
    /\ offers' = offers => b.discountAmount = 0
    /\ b.status = "pending"
    /\ b.paidAmount = 0
    /\ b.payment.status = "pending"

C3_BookingAmounts ==
    [][Len(bookings') = Len(bookings) + 1 => C3_Created(bookings'[Len(bookings')])]_vars

\* a booking with extra services was created with a promo discount
C3_Witness ==
    /\ res = Respond("createBooking", 201, "")
    /\ bookings # <<>>
    /\ bookings[Len(bookings)].discountAmount > 0
    /\ bookings[Len(bookings)].additionalServices # <<>>
    /\ bookings[Len(bookings)].taxAmount > 0

\* C10: an offer is applied to a booking (a discount recorded, usedCount
\* incremented), by createBooking with promoCode or by applyOffer, only if at
\* that moment its status is 'active', validFrom <= now <= validUntil, today
\* is in activeDays when that is non-empty, the time is within activeHours
\* when set, the booking amount is >= minBookingAmount, totalDays >=
\* minRentalDays, the car is in applicableCars when non-empty and not in
\* excludedCars, and the car's category is in applicableCategories when
\* non-empty; otherwise no discount is recorded and usedCount and usersUsed
\* are unchanged.
C10_Conditions(o, b) ==
    /\ o.status = "active"
    /\ o.validFrom <= now
    /\ now <= o.validUntil
    /\ o.activeDays # {} => DayNames[((now \div 24) % 7) + 1] \in o.activeDays
    /\ (o.activeHours.from # <<>> /\ o.activeHours.to # <<>>) =>
          /\ (now % 24) * 60 >= o.activeHours.from[1] * 60 + o.activeHours.from[2]
          /\ (now % 24) * 60 <= o.activeHours.to[1] * 60 + o.activeHours.to[2]
    /\ b.baseAmount + C3_ServicesTotal(b) >= o.minBookingAmount * Unit
    /\ b.totalDays >= o.minRentalDays
    /\ o.applicableCars # {} => b.car \in o.applicableCars
    /\ b.car \notin o.excludedCars
    /\ o.applicableCategories # {} => Cars[b.car].category \in o.applicableCategories

\* the bookings a step has created or changed
C10_Touched ==
    {i \in DOMAIN bookings' : i \notin DOMAIN bookings \/ bookings'[i] # bookings[i]}

C10_DiscountRecorded(i) ==
    IF i \in DOMAIN bookings
    THEN \/ bookings'[i].discountAmount # bookings[i].discountAmount
         \/ bookings'[i].additionalCharges # bookings[i].additionalCharges
         \/ bookings'[i].promoCode # bookings[i].promoCode
    ELSE \/ bookings'[i].discountAmount # 0
         \/ \E k \in DOMAIN bookings'[i].additionalCharges :
               bookings'[i].additionalCharges[k].type = "discount"

C10_OfferUsed(c) ==
    \/ offers'[c].usedCount # offers[c].usedCount
    \/ offers'[c].usersUsed # offers[c].usersUsed

C10_AppliedOnlyWhenEligible ==
    [][/\ \A c \in DOMAIN offers :
             C10_OfferUsed(c) =>
                /\ offers'[c].usedCount = offers[c].usedCount + 1
                /\ \E i \in C10_Touched : C10_Conditions(offers[c], bookings'[i])
       /\ \A i \in C10_Touched :
             C10_DiscountRecorded(i) => \E c \in DOMAIN offers : C10_OfferUsed(c)]_vars

\* the offer was applied by applyOffer to a booking created without it, on a
\* day and at an hour the offer allows
C10_Witness ==
    /\ res = Respond("applyOffer", 200, "")
    /\ offers["SAVE10"].usedCount = 1
    /\ \E i \in DOMAIN bookings : bookings[i].promoCode = "SAVE10"
    /\ \/ offers["SAVE10"].activeDays # {}
       \/ offers["SAVE10"].activeHours.from # <<>>
       \/ offers["SAVE10"].validFrom > 0

----------------------------------------------------------------------------
(* Offer usage: limits, user applicability and repeated application        *)

\* offerSchema.methods.isUserEligible; undefined === 0 and undefined > 0 are
\* both false
isUserEligible(offer, user) ==
    IF offer.applicableFor = "specific_users" THEN user.id \in offer.specificUsers
    ELSE IF offer.applicableFor = "new_users" THEN user.totalBookings = 0
    ELSE IF offer.applicableFor = "existing_users"
    THEN user.totalBookings # Null /\ user.totalBookings > 0
    ELSE TRUE

\* usersUsed.filter(usage => usage.user.toString() === userId).length
UserUsageCount(offer, userId) ==
    Cardinality({k \in DOMAIN offer.usersUsed : offer.usersUsed[k].user = userId})

\* POST /api/offers/validate: answers only, stores nothing
validateOffer(code, carId, totalAmount, totalDays, userId) ==
    /\ res' =
         IF code = ""
         THEN Respond("validateOffer", 400, "Offer code is required")
         ELSE IF FindActiveOffer(offers, ToUpperCase(code)) = ""
         THEN Respond("validateOffer", 404, "Invalid offer code")
         ELSE LET offer == offers[FindActiveOffer(offers, ToUpperCase(code))]
                  eligibility ==
                      canApplyToBooking(offer,
                          [totalAmount |-> totalAmount, totalDays |-> totalDays,
                           carId |-> carId, category |-> Cars[carId].category,
                           userId |-> userId], now)
              IN  IF offer.validFrom > now \/ offer.validUntil < now
                  THEN Respond("validateOffer", 400, "Offer is not valid at this time")
                  ELSE IF Truthy(offer.usageLimit) /\ offer.usedCount >= offer.usageLimit
                  THEN Respond("validateOffer", 400, "Offer usage limit reached")
                  ELSE IF ~eligibility.valid
                  THEN Respond("validateOffer", 400, eligibility.reason)
                  ELSE IF /\ offer.perUserLimit > 0
                          /\ userId \in DOMAIN users
                          /\ UserUsageCount(offer, userId) >= offer.perUserLimit
                  THEN Respond("validateOffer", 400,
                               "You have already used this offer maximum times")
                  ELSE Respond("validateOffer", 200, "")
    /\ UNCHANGED <<now, bookings, offers, cars, users, args, result>>

\* The offers stored under SAVE10 in the usage runs: total and per-user
\* limits, and the four kinds of applicability (u2 the one listed user).
UsageOffers ==
    {[BaseOffer EXCEPT !.usageLimit = l, !.perUserLimit = p,
                       !.applicableFor = a, !.specificUsers = {"u2"}] :
        l \in {Null, 1, 2}, p \in {1, 2},
        a \in {"all", "new_users", "existing_users", "specific_users"}}

\* The instants of the usage runs: inside the offer's window and after it.
UsageNowPoints == {0, 26, 49}

InitUsage ==
    /\ now = 0
    /\ bookings = <<>>
    /\ offers \in {("SAVE10" :> o) : o \in UsageOffers}
    /\ cars = [c \in DOMAIN Cars |-> [availability |-> "available"]]
    /\ res = NoResponse
    /\ args = NoArgs
    /\ result = NoResult
    /\ users = Accounts

TickUsage ==
    /\ \E t \in UsageNowPoints : t > now /\ now' = t
    /\ UNCHANGED <<bookings, offers, cars, users, res, args, result>>

CreateBookingUsage ==
    \E u \in Users, carId \in CarIds, promoCode \in {"", "save10"} :
        createBooking(u, carId, 50, 74, <<>>, promoCode)

ApplyOfferUsage ==
    \E u \in Users, bookingId \in 1..MaxBookings : applyOffer(u, bookingId, "save10")

ValidateOffer ==
    \E code \in {"", "save10", "nope"}, carId \in CarIds, userId \in Users :
        validateOffer(code, carId, Money(5), 1, userId)

NextUsage == TickUsage \/ CreateBookingUsage \/ ApplyOfferUsage \/ ValidateOffer

SpecUsage == InitUsage /\ [][NextUsage]_vars

\* C11: for an offer whose usageLimit is a positive number, after any
\* sequence of createBooking-with-promoCode, applyOffer and validateOffer
\* requests, usedCount never exceeds usageLimit, a request arriving when
\* usedCount >= usageLimit gets no discount, and usedCount always equals the
\* number of entries in usersUsed; an offer whose usageLimit is null is never
\* refused for usage.
C11_Exhausted(o) == o.usageLimit # Null /\ o.usageLimit > 0 /\ o.usedCount >= o.usageLimit

C11_Counts ==
    \A c \in DOMAIN offers :
        /\ offers[c].usedCount = Len(offers[c].usersUsed)
        /\ (offers[c].usageLimit # Null /\ offers[c].usageLimit > 0) =>
               offers[c].usedCount <= offers[c].usageLimit
        /\ offers[c].usageLimit = Null => res.error # "Offer usage limit reached"

C11_UsageLimit ==
    /\ C11_Counts
    /\ [][/\ C11_Counts'
          /\ (now' = now /\ \A c \in DOMAIN offers : C11_Exhausted(offers[c])) =>
                /\ offers' = offers
                /\ \A i \in C10_Touched : ~C10_DiscountRecorded(i)
                /\ res'.op \in {"applyOffer", "validateOffer"} => res'.code # 200
          /\ \A u \in Users, carId \in CarIds :
                (/\ offers["SAVE10"].usageLimit = Null
                 /\ Len(bookings') = Len(bookings) + 1
                 /\ createBooking(u, carId, 50, 74, <<>>, "save10")
                 /\ C10_Conditions(offers["SAVE10"], bookings'[Len(bookings')]))
                => offers'["SAVE10"].usedCount = offers["SAVE10"].usedCount + 1]_vars

\* the limit of two uses has been reached and a further request was refused
\* for it
C11_Witness ==
    /\ offers["SAVE10"].usageLimit = 2
    /\ offers["SAVE10"].usedCount = 2
    /\ res = Respond("applyOffer", 400, "Offer usage limit reached")

\* C12: no user uses the same offer more than perUserLimit times: after any
\* sequence of createBooking-with-promoCode and applyOffer requests, the
\* number of usersUsed entries of one offer that belong to one user never
\* exceeds that offer's perUserLimit.
C12_PerUserLimit ==
    \A c \in DOMAIN offers, u \in Users :
        Cardinality({k \in DOMAIN offers[c].usersUsed : offers[c].usersUsed[k].user = u})
            <= offers[c].perUserLimit

\* C13: an offer whose applicableFor is 'new_users', 'existing_users' or
\* 'specific_users' is applied to a booking (by createBooking with promoCode
\* or by applyOffer) only when the booking's user is listed in specificUsers
\* for 'specific_users', has no earlier bookings for 'new_users', and has at
\* least one earlier booking for 'existing_users'.
C13_Applied(c) == offers'[c].usedCount = offers[c].usedCount + 1

\* the usersUsed entry the step has pushed
C13_Use(c) == offers'[c].usersUsed[Len(offers'[c].usersUsed)]

\* the booking the offer was applied to: the one applyOffer names, or the
\* one createBooking goes on to create
C13_Target(c) == IF C13_Use(c).booking = 0 THEN Len(bookings') ELSE C13_Use(c).booking

C13_EarlierBookings(c) ==
    {i \in DOMAIN bookings : i < C13_Target(c) /\ bookings[i].user = C13_Use(c).user}

C13_UserApplicability ==
    [][\A c \in DOMAIN offers :
          C13_Applied(c) =>
             /\ offers[c].applicableFor = "specific_users" =>
                    C13_Use(c).user \in offers[c].specificUsers
             /\ offers[c].applicableFor = "new_users" => C13_EarlierBookings(c) = {}
             /\ offers[c].applicableFor = "existing_users" => C13_EarlierBookings(c) # {}]_vars

\* C14: once a promo discount has been applied to a booking, whether at
\* createBooking through promoCode or by an earlier applyOffer, every later
\* applyOffer on that booking by its user is answered 400 'Booking already
\* has an offer applied' and leaves the booking's discountAmount, totalAmount
\* and additionalCharges and the offer's usedCount unchanged.
C14_PromoApplied(b) ==
    \/ b.promoCode # ""
    \/ \E k \in DOMAIN b.additionalCharges : b.additionalCharges[k].type = "discount"

C14_OneOfferPerBooking ==
    [][\A u \in Users, id \in DOMAIN bookings :
          (/\ bookings[id].user = u
           /\ C14_PromoApplied(bookings[id])
           /\ applyOffer(u, id, "save10"))
          => /\ res' = Respond("applyOffer", 400, "Booking already has an offer applied")
             /\ bookings'[id].discountAmount = bookings[id].discountAmount
             /\ bookings'[id].totalAmount = bookings[id].totalAmount
             /\ bookings'[id].additionalCharges = bookings[id].additionalCharges
             /\ \A c \in DOMAIN offers : offers'[c].usedCount = offers[c].usedCount]_vars

----------------------------------------------------------------------------
(* Login and the account lock                                              *)

\* userSchema.methods.isLocked: !!(lockUntil && lockUntil > Date.now()); a
\* stored Date is always truthy
isLocked(user, t) == user.lockUntil # Null /\ user.lockUntil > t

\* The lock set on reaching six failed attempts.
incLoginAttemptsAtSix(user, t) ==
    IF user.lockUntil # Null /\ user.lockUntil < t
    THEN [user EXCEPT !.loginAttempts = 1, !.lockUntil = Null]
    ELSE IF user.loginAttempts + 1 >= 6 /\ ~isLocked(user, t)
    THEN [user EXCEPT !.loginAttempts = @ + 1, !.lockUntil = t + 1]
    ELSE [user EXCEPT !.loginAttempts = @ + 1]

\* userSchema.methods.incLoginAttempts; the clock counts hours, so the lock
\* of 60 * 60 * 1000 ms lasts 1
incLoginAttempts(user, t) ==
    IF user.lockUntil # Null /\ user.lockUntil < t
    THEN [user EXCEPT !.loginAttempts = 1, !.lockUntil = Null]
    ELSE IF user.loginAttempts + 1 >= 5 /\ ~isLocked(user, t)
    THEN [user EXCEPT !.loginAttempts = @ + 1, !.lockUntil = t + 1]
    ELSE [user EXCEPT !.loginAttempts = @ + 1]

\* userSchema.methods.comparePassword: bcrypt.compare against the stored hash
comparePassword(user, candidatePassword) == candidatePassword = user.password

\* POST /api/auth/login
login(email, password) ==
    /\ IF email = "" \/ password = ""
       THEN /\ res' = Respond("login", 400, "Please provide email and password")
            /\ UNCHANGED users
       ELSE IF email \notin DOMAIN users
       THEN /\ res' = Respond("login", 401, "Invalid credentials")
            /\ UNCHANGED users
       ELSE IF isLocked(users[email], now)
       THEN /\ res' = Respond("login", 423, "Account is locked. Try again later.")
            /\ UNCHANGED users
       ELSE IF ~comparePassword(users[email], password)
       THEN /\ users' = [users EXCEPT ![email] = incLoginAttempts(@, now)]
            /\ res' = Respond("login", 401, "Invalid credentials")
       ELSE IF ~users[email].isVerified
       THEN /\ res' = Respond("login", 403, "Please verify your email first")
            /\ UNCHANGED users
       ELSE IF users[email].status # "active"
       THEN /\ res' = Respond("login", 403, "Your account has been suspended")
            /\ UNCHANGED users
       ELSE /\ users' = [users EXCEPT ![email].loginAttempts = 0,
                                      ![email].lockUntil = Null]
            /\ res' = Respond("login", 200, "")
    /\ UNCHANGED <<now, bookings, offers, cars, args, result>>

\* The last hour at which a login arrives.
MaxLoginHour == 3

Emails == {"", "u1", "u2", "nobody"}

Passwords == {"", "pw1", "pw2", "bad"}

\* u2 as registered: verified, not yet verified, or suspended by an admin.
LoginAccounts ==
    {Accounts,
     [Accounts EXCEPT !["u2"].isVerified = FALSE],
     [Accounts EXCEPT !["u2"].status = "suspended"]}

InitLogin ==
    /\ now = 0
    /\ bookings = <<>>
    /\ offers = ("SAVE10" :> BaseOffer)
    /\ cars = [c \in DOMAIN Cars |-> [availability |-> "available"]]
    /\ users \in LoginAccounts
    /\ res = NoResponse
    /\ args = NoArgs
    /\ result = NoResult

TickLogin ==
    /\ \E t \in 0..MaxLoginHour : t > now /\ now' = t
    /\ UNCHANGED <<bookings, offers, cars, users, res, args, result>>

Login == \E email \in Emails, password \in Passwords : login(email, password)

NextLogin == TickLogin \/ Login

SpecLogin == InitLogin /\ [][NextLogin]_vars

\* C15: with requests handled one at a time, the 5th consecutive failed
\* password attempt on an account sets lockUntil to one hour later; while
\* lockUntil is in the future every login for that account is answered 423
\* whatever password is supplied, without changing loginAttempts; the first
\* failed attempt after the lock has expired resets loginAttempts to 1 and
\* clears lockUntil; a successful login resets loginAttempts to 0 and clears
\* lockUntil.
C15_Lockout ==
    [][\A email \in DOMAIN users, password \in Passwords \ {""} :
          login(email, password) =>
             /\ (users[email].lockUntil # Null /\ users[email].lockUntil > now) =>
                    /\ res'.code = 423
                    /\ users' = users
             /\ (/\ ~(users[email].lockUntil # Null /\ users[email].lockUntil > now)
                 /\ password # users[email].password) =>
                    /\ res'.code = 401
                    /\ (users[email].lockUntil = Null /\ users[email].loginAttempts = 4) =>
                           /\ users'[email].loginAttempts = 5
                           /\ users'[email].lockUntil = now + 1
                    /\ (users[email].lockUntil = Null /\ users[email].loginAttempts < 4) =>
                           /\ users'[email].loginAttempts = users[email].loginAttempts + 1
                           /\ users'[email].lockUntil = Null
                    /\ (users[email].lockUntil # Null /\ users[email].lockUntil < now) =>
                           /\ users'[email].loginAttempts = 1
                           /\ users'[email].lockUntil = Null
             /\ res'.code = 200 =>
                    /\ users'[email].loginAttempts = 0
                    /\ users'[email].lockUntil = Null
             /\ \A other \in DOMAIN users \ {email} : users'[other] = users[other]]_vars

\* five failed attempts have locked u1 until hour 1, and a further login for
\* u1 within that hour was answered 423
C15_Witness ==
    /\ res = Respond("login", 423, "Account is locked. Try again later.")
    /\ now = 0
    /\ users["u1"].loginAttempts = 5
    /\ users["u1"].lockUntil = 1
    /\ users["u2"].lockUntil = Null

----------------------------------------------------------------------------
(* Two createBooking requests in flight                                    *)

\* Each request runs createBooking in two steps, as its awaits allow: the
\* checks up to the availability query (authController.js:722-762), then
\* Booking.create (846-880). args holds the requests in flight and where
\* each one stands: "query", "create", or finished as "created" / "refused".
RaceRanges == {<<50, 74>>, <<62, 86>>, <<75, 99>>}

RaceRequests ==
    [user : Users, carId : CarIds, range : RaceRanges, pc : {"query"}]

InitRace ==
    /\ now = 0
    /\ bookings = <<>>
    /\ offers = ("SAVE10" :> BaseOffer)
    /\ cars = [c \in DOMAIN Cars |-> [availability |-> "available"]]
    /\ users = Accounts
    /\ res = NoResponse
    /\ args \in [fn : {"createBooking"}, reqs : [{1, 2} -> RaceRequests]]
    /\ result = NoResult

\* the checks of createBooking that end with car.isAvailableForDates
QueryAvailability(r) ==
    LET req == args.reqs[r]
        refusal == createBookingRefusal(req.carId, req.range[1], req.range[2])
    IN  /\ req.pc = "query"
        /\ IF refusal # NoResponse
           THEN /\ res' = refusal
                /\ args' = [args EXCEPT !.reqs[r].pc = "refused"]
           ELSE /\ res' = res
                /\ args' = [args EXCEPT !.reqs[r].pc = "create"]
        /\ UNCHANGED <<now, bookings, offers, cars, users, result>>

\* the rest of createBooking: the amounts and Booking.create
CreateStep(r) ==
    LET req == args.reqs[r]
    IN  /\ req.pc = "create"
        /\ bookings' = Append(bookings,
                          NewBooking(req.user, req.carId, req.range[1], req.range[2],
                                     <<>>, ""))
        /\ res' = Respond("createBooking", 201, "")
        /\ args' = [args EXCEPT !.reqs[r].pc = "created"]
        /\ UNCHANGED <<now, offers, cars, users, result>>

RaceQuery == \E r \in {1, 2} : QueryAvailability(r)

RaceCreate == \E r \in {1, 2} : CreateStep(r)

NextRace == RaceQuery \/ RaceCreate

SpecRace == InitRace /\ [][NextRace]_vars

\* C16: for every interleaving of two createBooking requests for the same
\* car with overlapping date ranges (each request's availability query and
\* its Booking.create being separate steps), at most one of the two requests
\* creates a booking; the store never contains two pending bookings of one
\* car with overlapping ranges.
C16_RequestsOverlap ==
    /\ args.reqs[1].carId = args.reqs[2].carId
    /\ args.reqs[1].range[1] <= args.reqs[2].range[2]
    /\ args.reqs[2].range[1] <= args.reqs[1].range[2]

C16_ConcurrentBookings ==
    /\ C16_RequestsOverlap =>
          ~(args.reqs[1].pc = "created" /\ args.reqs[2].pc = "created")
    /\ \A i, j \in DOMAIN bookings :
          (/\ i # j
           /\ bookings[i].car = bookings[j].car
           /\ bookings[i].status = "pending"
           /\ bookings[j].status = "pending")
          => \/ bookings[i].dropoffDate < bookings[j].pickupDate
             \/ bookings[j].dropoffDate < bookings[i].pickupDate

====
